---------------------------- MODULE Spec2Model ----------------------------
(***************************************************************************)
(* Model of lib/thorax.loading.js: the load:start / load:end debouncer     *)
(* (Thorax.loadHandler), the fetch queue (fetchQueue / flushQueue) and the *)
(* route guard (bindToRoute).                                              *)
(*                                                                         *)
(* Time is counted in ticks of 10 ms, so that the class defaults 0.33 s    *)
(* and 0.10 s are the integers 33 and 10.                                  *)
(***************************************************************************)
EXTENDS Integers, Sequences, FiniteSets, TLC

VARIABLES
  \* ---- Thorax.loadHandler, one observing object "self" ----
  self,      \* per-instance overrides of the two durations
  ls,        \* self._loadStart (the LoadSignal), ls.open = FALSE when undefined
  timers,    \* the pending setTimeout callbacks
  obs,       \* obs[o]: endCallbacks bound to load:end of source object o
  threw,     \* a handler dereferenced self._loadStart while it was undefined
  pend,      \* history: pend[o] = load:start signals of o not yet followed by a load:end of o
  ep,        \* history of the latest episode (see NewEpisode)
  \* ---- fetchQueue / flushQueue, one data object ----
  calls,     \* the fetch calls made so far, calls[c] the options of call c
  fq,        \* this.fetchQueue: 0 when undefined, else the queue's id
  queues,    \* queues[q]: the array of queue q (the calls in it, in order)
  xport,     \* xport[q]: the transport call issued for queue q
  flush,     \* the flushQueue handler that is running, and where it stands
  cblog,     \* history: the callbacks of the fetch options invoked, in order
  \* ---- bindToRoute ----
  fragment,      \* Backbone.history.getFragment()
  routePending,  \* the fragment was set and its 'route' event is yet to be triggered
  guards,        \* the bindToRoute invocations made so far
  \* ---- Thorax.forwardLoadEvents, one source and one dest ----
  forwarders,    \* the forwardLoadEvents invocations made so far
  sourceEvents,  \* history: the load:start events triggered on source
  destEvents,    \* history: the load:start events triggered on dest
  \* ---- load / loadData, one data object ----
  loads,         \* the load calls made so far, with the route guard of each
  dataQueue,     \* this.fetchQueue: the load calls waiting for the request
  request,       \* this._request: "none" when undefined
  aborted,       \* this._aborted
  populated      \* this.isPopulated()

loadVars == <<self, ls, timers, obs, threw, pend, ep>>
fetchVars == <<calls, fq, queues, xport, flush, cblog>>
routeVars == <<fragment, routePending, guards>>
forwardVars == <<forwarders, sourceEvents, destEvents>>
dataVars == <<loads, dataQueue, request, aborted, populated>>

vars == <<self, ls, timers, obs, threw, pend, ep,
          calls, fq, queues, xport, flush, cblog,
          fragment, routePending, guards,
          forwarders, sourceEvents, destEvents,
          loads, dataQueue, request, aborted, populated>>

-----------------------------------------------------------------------------
(* Bounds *)

\* load:start events handled within one episode
MaxStarts == 2
\* slots for pending timers
MaxTimers == 3
\* ticks an episode is followed for
MaxTime == 48

(* Program constants, in ticks of 10 ms *)

\* Thorax.View.prototype._loadingTimeoutDuration: 0.33
ClassTimeoutDuration == 33
\* Thorax.View.prototype._loadingTimeoutEndDuration: 0.10
ClassTimeoutEndDuration == 10

\* the source objects that signal load:start / load:end to self
Sources == {"A", "B"}
\* the message argument of load:start
Messages == {"m1", "m2"}

\* a per-instance duration: undefined, or a number of ticks
Unset == [def |-> FALSE, val |-> 0]
Override(n) == [def |-> TRUE, val |-> n]
\* the instances the model is run for: no override, or both durations overridden
Instances ==
  { [_loadingTimeoutDuration |-> Unset, _loadingTimeoutEndDuration |-> Unset],
    [_loadingTimeoutDuration |-> Override(4), _loadingTimeoutEndDuration |-> Override(2)] }

-----------------------------------------------------------------------------
(* Timers: setTimeout / clearTimeout *)

\* A timer slot. kind: "free", "start" (closure of line 32) or "end" (closure
\* of line 79). An end closure captured the array `events` (line 73): cur
\* tells that it is the array of the current LoadSignal; once that signal is
\* discarded the array can no longer change (the endCallbacks read
\* self._loadStart.events afresh), and frozen keeps its length.
FreeTimer == [kind |-> "free", left |-> 0, cur |-> FALSE, frozen |-> 0]

TimerIds == 1..MaxTimers

HasFreeSlot(tm) == \E i \in TimerIds : tm[i].kind = "free"

FreeSlot(tm) == CHOOSE i \in TimerIds :
                  /\ tm[i].kind = "free"
                  /\ \A j \in TimerIds : tm[j].kind = "free" => i <= j

\* a slip of line 31 / 54: the timer that is superseded is not cleared
ClearTimeout_noop(tm, h) == tm

\* clearTimeout(h): h = 0 stands for undefined, 0, or the id of a timer that
\* has fired or was cleared; clearTimeout ignores all of these alike.
ClearTimeout(tm, h) == IF h = 0 THEN tm ELSE [tm EXCEPT ![h] = FreeTimer]

\* setTimeout(fn, NaN): the delay is clamped to 0
NaNDelay == 0

-----------------------------------------------------------------------------
(* Thorax.loadHandler *)

NoSignal == [open |-> FALSE, events |-> <<>>, timeout |-> 0, endTimeout |-> 0,
             message |-> "m1", background |-> FALSE, run |-> FALSE]

\* lines 40-44: the instance's duration, else the class default
LoadingTimeout(s) ==
  IF s._loadingTimeoutDuration.def THEN s._loadingTimeoutDuration.val
  ELSE ClassTimeoutDuration

\* a slip of lines 67-71: the instance's duration is not looked at
LoadingEndTimeout_classOnly(s) == ClassTimeoutEndDuration

\* lines 67-71
LoadingEndTimeout(s) ==
  IF s._loadingTimeoutEndDuration.def THEN s._loadingTimeoutEndDuration.val
  ELSE ClassTimeoutEndDuration

\* `loadingTimeout` is a var of the handler invocation (line 40), assigned
\* only in the branch that creates the signal; in the invocation that finds
\* a signal it is undefined and loadingTimeout*1000 is NaN.
RearmDelay(s) == NaNDelay

\* startLoadTimeout, lines 30-37, with the delay the invocation computes
StartLoadTimeout(sig, tm, delay) ==
  LET tm1 == ClearTimeout(tm, sig.timeout)
      id  == FreeSlot(tm1)
  IN  [sig |-> [sig EXCEPT !.timeout = id],
       tm  |-> [tm1 EXCEPT ![id] = [kind |-> "start", left |-> delay,
                                    cur |-> FALSE, frozen |-> 0]]]

\* a slip of line 57: the signal is never taken out of background
Upgrades_never(sig, background) == FALSE

\* a slip of line 57: every non-background start re-arms the start timer
Upgrades_anyForeground(sig, background) == ~background

\* line 57: a non-background start joins a background signal
Upgrades(sig, background) == ~background /\ sig.background

\* the history of an episode, reset when a LoadSignal is created:
\*   starts    load:start events handled       t      ticks since creation
\*   onStart   calls of the start callback     onEnd  calls of the end callback
\*   firstEnd  "none", or whether the first load:end that ran an endCallback
\*             came "early" (t < the start delay) or "late"
\*   sinceEnd  ticks since that load:end, while no second load:start arrived
\*   openedBg  the load:start that created the signal was a background one
\*   allBg     every load:start handled was a background one
\*   fgStarts  calls of the start callback with background = false
\*   upgradeWait  ticks from the first non-background load:start on a signal
\*             opened in background to the next call of the start callback
\*   lateUpgrade  that load:start came after the start callback had run
NewEpisode == [starts |-> 0, onStart |-> 0, onEnd |-> 0, t |-> 0,
               firstEnd |-> "none", sinceEnd |-> 0,
               openedBg |-> FALSE, allBg |-> TRUE, fgStarts |-> 0,
               upgradeWait |-> 0, lateUpgrade |-> FALSE]

\* history: a non-background load:start has joined an episode opened in background
Upgraded(e) == e.openedBg /\ ~e.allBg

\* a slip of line 50: the flag of the first load:start is dropped
InitialBackground_false(background) == FALSE

\* line 50: background: !!background
InitialBackground(background) == background

\* the handler returned by Thorax.loadHandler, lines 27-96
LoadStartHandled(message, background, object) ==
  /\ ~threw
  /\ (IF ls.open THEN ep.starts ELSE 0) < MaxStarts
  /\ pend[object] < MaxStarts
  /\ HasFreeSlot(ClearTimeout(timers, ls.timeout))
  /\ LET r == IF ~ls.open
              THEN \* lines 39-52
                   StartLoadTimeout(
                     [NoSignal EXCEPT !.open = TRUE, !.message = message,
                                      !.background = InitialBackground(background)],
                     timers, LoadingTimeout(self))
              ELSE \* lines 53-61
                   LET tm1 == ClearTimeout(timers, ls.endTimeout)
                       s1  == [ls EXCEPT !.endTimeout = 0, !.message = message]
                   IN  IF Upgrades(s1, background)
                       THEN StartLoadTimeout([s1 EXCEPT !.background = FALSE],
                                             tm1, RearmDelay(self))
                       ELSE [sig |-> s1, tm |-> tm1]
     IN  \* line 63
         /\ ls' = [r.sig EXCEPT !.events = Append(@, object)]
         /\ timers' = r.tm
  \* line 64
  /\ obs' = [obs EXCEPT ![object] = @ + 1]
  /\ pend' = [pend EXCEPT ![object] = @ + 1]
  /\ ep' = IF ls.open
           THEN [ep EXCEPT !.starts = @ + 1, !.sinceEnd = 0,
                           !.allBg = @ /\ background,
                           !.lateUpgrade = @ \/ (/\ ep.openedBg /\ ep.allBg
                                                 /\ ~background /\ ep.onStart > 0)]
           ELSE [NewEpisode EXCEPT !.starts = 1, !.openedBg = background,
                                   !.allBg = background]
  /\ UNCHANGED <<self, threw>>

\* a load:start triggered on the observing object
LoadStart(message, background, object) ==
  /\ LoadStartHandled(message, background, object)
  /\ UNCHANGED <<fetchVars, routeVars, forwardVars, dataVars>>

\* events.indexOf(object) / events.splice(index, 1), lines 74-77
RECURSIVE RemoveFirst(_, _)
RemoveFirst(s, x) ==
  IF s = <<>> THEN <<>>
  ELSE IF Head(s) = x THEN Tail(s)
  ELSE <<Head(s)>> \o RemoveFirst(Tail(s), x)

\* a slip of line 78: every load:end arms an end timer
ArmsEndTimer_always(events) == TRUE

\* line 78: the end timer is armed when no sub-load is left
ArmsEndTimer(events) == Len(events) = 0

\* one endCallback, lines 64-95, on st = [sig, tm, threw]
EndCallback(st, object) ==
  IF st.threw THEN st
  ELSE IF ~st.sig.open THEN [st EXCEPT !.threw = TRUE]   \* line 73 on undefined
  ELSE
    LET events == RemoveFirst(st.sig.events, object)
        s1     == [st.sig EXCEPT !.events = events]
    IN  IF ArmsEndTimer(events) /\ HasFreeSlot(st.tm)
        THEN LET id == FreeSlot(st.tm)
             IN  [st EXCEPT !.sig = [s1 EXCEPT !.endTimeout = id],
                            !.tm = [st.tm EXCEPT ![id] =
                                      [kind |-> "end", left |-> LoadingEndTimeout(self),
                                       cur |-> TRUE, frozen |-> 0]]]
        ELSE [st EXCEPT !.sig = s1]

\* object.trigger('load:end'): every endCallback bound to it runs, in turn
RECURSIVE Dispatch(_, _, _)
Dispatch(st, object, n) ==
  IF n = 0 THEN st ELSE Dispatch(EndCallback(st, object), object, n - 1)

\* the endCallbacks that one load:end of `object` runs: all that are bound
BoundCallbacks(object) == obs[object]

\* LoadableMixin.loadEnd on a source object, lines 130-132
LoadEndTriggered(object) ==
  /\ ~threw
  /\ pend[object] > 0
  /\ LET n  == BoundCallbacks(object)
         st == Dispatch([sig |-> ls, tm |-> timers, threw |-> FALSE], object, n)
     IN  /\ ls' = st.sig
         /\ timers' = st.tm
         /\ threw' = st.threw
         /\ obs' = [obs EXCEPT ![object] = @ - n]    \* line 65
  /\ pend' = [pend EXCEPT ![object] = @ - 1]
  /\ ep' = IF ep.firstEnd = "none" /\ BoundCallbacks(object) > 0
           THEN [ep EXCEPT !.firstEnd = IF ep.t < LoadingTimeout(self)
                                        THEN "early" ELSE "late"]
           ELSE ep
  /\ UNCHANGED self

\* a source object signals load:end
LoadEnd(object) ==
  /\ LoadEndTriggered(object)
  /\ UNCHANGED <<fetchVars, routeVars, forwardVars, dataVars>>

\* a handle that names timer id is as good as 0 once the timer is gone
Forget(sig, id) ==
  [sig EXCEPT !.timeout = IF @ = id THEN 0 ELSE @,
              !.endTimeout = IF @ = id THEN 0 ELSE @]

\* the start timer's callback, lines 32-35
StartTimerFire(id) ==
  /\ ~threw
  /\ timers[id].kind = "start"
  /\ timers[id].left = 0
  /\ timers' = [timers EXCEPT ![id] = FreeTimer]
  /\ IF ~ls.open
     THEN /\ threw' = TRUE
          /\ UNCHANGED <<ls, ep>>
     ELSE /\ ls' = [Forget(ls, id) EXCEPT !.run = TRUE]
          /\ ep' = [ep EXCEPT !.onStart = @ + 1,
                               !.fgStarts = IF ls.background THEN @ ELSE @ + 1]
          /\ UNCHANGED threw
  /\ UNCHANGED <<self, obs, pend, fetchVars, routeVars, forwardVars, dataVars>>

\* a slip of line 83: the end callback runs whether or not the start ran
PairedStart_always(sig) == TRUE

\* line 83: the end callback runs only if there is a paired start
PairedStart(sig) == sig.run

\* line 80: the end timer acts only if the captured array is still empty
StillEmpty(tmr, sig) == (IF tmr.cur THEN Len(sig.events) ELSE tmr.frozen) = 0

\* the end timer's callback, lines 79-93
EndTimerFire(id) ==
  /\ ~threw
  /\ timers[id].kind = "end"
  /\ timers[id].left = 0
  /\ LET tm1 == [timers EXCEPT ![id] = FreeTimer]
     IN  IF ~StillEmpty(timers[id], ls)
         THEN /\ timers' = tm1
              /\ ls' = Forget(ls, id)
              /\ UNCHANGED <<threw, ep>>
         ELSE IF ~ls.open
         THEN /\ timers' = tm1              \* line 81 on undefined
              /\ threw' = TRUE
              /\ UNCHANGED <<ls, ep>>
         ELSE /\ ep' = IF PairedStart(ls) THEN [ep EXCEPT !.onEnd = @ + 1] ELSE ep
              \* lines 90-91; the other end closures keep the discarded array
              /\ timers' = [i \in TimerIds |->
                              LET t == ClearTimeout(tm1, Forget(ls, id).timeout)[i]
                              IN  IF t.kind = "end" /\ t.cur
                                  THEN [t EXCEPT !.cur = FALSE, !.frozen = Len(ls.events)]
                                  ELSE t]
              /\ ls' = NoSignal
              /\ UNCHANGED threw
  /\ UNCHANGED <<self, obs, pend, fetchVars, routeVars, forwardVars, dataVars>>

\* 10 ms pass; a timer that is due fires before time moves on. The history
\* clock ep.t stops counting at MaxTime, the timers go on.
Tick ==
  /\ ~threw
  /\ ls.open
  /\ \A i \in TimerIds : timers[i].kind # "free" => timers[i].left > 0
  /\ timers' = [i \in TimerIds |->
                  IF timers[i].kind = "free" THEN timers[i]
                  ELSE [timers[i] EXCEPT !.left = @ - 1]]
  /\ ep' = [ep EXCEPT !.t = IF @ < MaxTime THEN @ + 1 ELSE @,
                      !.sinceEnd = IF ep.starts = 1 /\ ep.firstEnd # "none"
                                   THEN @ + 1 ELSE @,
                      !.upgradeWait = IF Upgraded(ep) /\ ep.fgStarts = 0
                                      THEN @ + 1 ELSE @]
  /\ UNCHANGED <<self, ls, obs, threw, pend, fetchVars, routeVars, forwardVars, dataVars>>

-----------------------------------------------------------------------------
(* fetchQueue / flushQueue: the fetch of Thorax.Model and Thorax.Collection *)

\* fetch calls made on the data object
MaxCalls == 3

CallIds == 1..MaxCalls

\* the callbacks a caller may pass in the fetch options
CallbackSets == { {"success", "error", "complete"}, {"success"}, {} }

NoFlush == [on |-> FALSE, q |-> 0, handler |-> "none", i |-> 0, len |-> 0,
            inCallback |-> FALSE]

\* a slip of line 206: the queue is discarded by every call
ResetsQueue_always(options) == TRUE

\* line 206
ResetsQueue(options) == options.resetQueue

\* a slip of line 212: every call kicks off a request
NoQueue_always(queue) == TRUE

\* line 212: !this.fetchQueue
NoQueue(queue) == queue = 0

\* history: a transport call of the object is in flight
Overlaps == \E q \in CallIds : xport[q] = "inflight"

\* fetch, lines 252-264, and the fetchQueue it calls, lines 205-225. The call
\* is made by a caller of its own, or from within a callback that a running
\* flush has invoked. Every call wraps options.complete (lines 258-261) and
\* signals load:start (line 262). History of the call: q is the queue it
\* joined, live tells that the transport call of q was in flight, overlap
\* that some transport call was in flight, when the call was made.
FetchQueued(resetQueue, callbacks) ==
  /\ Len(calls) < MaxCalls
  /\ flush.on => flush.inCallback
  /\ LET c       == Len(calls) + 1
         options == [resetQueue |-> resetQueue, callbacks |-> callbacks]
         fq1     == IF ResetsQueue(options) THEN 0 ELSE fq        \* lines 206-210
     IN  IF NoQueue(fq1)
         THEN \* lines 212-220: kick off the request
              /\ fq' = c
              /\ queues' = [queues EXCEPT ![c] = <<c>>]
              /\ xport' = [xport EXCEPT ![c] = "inflight"]
              /\ calls' = Append(calls, [resetQueue |-> resetQueue,
                                         callbacks |-> callbacks,
                                         q |-> c, live |-> TRUE,
                                         overlap |-> Overlaps])
         ELSE \* lines 221-224: queue and process once complete
              /\ fq' = fq1
              /\ queues' = [queues EXCEPT ![fq1] = Append(@, c)]
              /\ xport' = xport
              /\ calls' = Append(calls, [resetQueue |-> resetQueue,
                                         callbacks |-> callbacks,
                                         q |-> fq1,
                                         live |-> xport[fq1] = "inflight",
                                         overlap |-> Overlaps])
  /\ UNCHANGED <<flush, cblog>>

\* a fetch call on a data object that nothing observes
Fetch(resetQueue, callbacks) ==
  /\ FetchQueued(resetQueue, callbacks)
  /\ UNCHANGED <<loadVars, routeVars, forwardVars, dataVars>>

\* the transport call of queue q ends: it calls the synthesized success or
\* error handler (lines 216-217), and after that the complete handler
\* (line 218). A handler runs fetchQueue.forEach (line 233), which visits the
\* entries the array holds when it starts.
TransportComplete(q, outcome) ==
  /\ ~flush.on
  /\ xport[q] = "inflight"
  /\ xport' = [xport EXCEPT ![q] = outcome]
  /\ flush' = [on |-> TRUE, q |-> q, handler |-> outcome, i |-> 1,
               len |-> Len(queues[q]), inCallback |-> FALSE]
  /\ UNCHANGED <<calls, fq, queues, cblog, loadVars, routeVars, forwardVars, dataVars>>

\* a slip of lines 258-261: options.complete is left as the caller gave it
HasHandler_asGiven(options, handler) == handler \in options.callbacks

\* line 234: the entry has a callback for this handler; options.complete is
\* always there, being the wrapper of lines 258-261
HasHandler(options, handler) ==
  handler = "complete" \/ handler \in options.callbacks

\* the caller's own code runs in the callback
RunsCallerCode(options, handler) == handler \in options.callbacks

\* one turn of the forEach of lines 233-237: the callback of the next entry
FlushTurn ==
  /\ flush.on
  /\ flush.i <= flush.len
  /\ LET c == queues[flush.q][flush.i]
     IN  /\ cblog' = IF HasHandler(calls[c], flush.handler)
                     THEN Append(cblog, [c |-> c, handler |-> flush.handler,
                                         x |-> flush.q])
                     ELSE cblog
         /\ flush' = [flush EXCEPT !.i = @ + 1,
                        !.inCallback = RunsCallerCode(calls[c], flush.handler)]
  /\ UNCHANGED <<calls, fq, queues, xport>>

\* the same, on a data object that nothing observes
FlushCallback ==
  /\ FlushTurn
  /\ UNCHANGED <<loadVars, routeVars, forwardVars, dataVars>>

\* 10 ms pass for the view observing the data object; the history of the
\* episode is not continued here (ep.t, ep.sinceEnd and ep.upgradeWait stand)
ObservedTick ==
  /\ ~threw
  /\ \A i \in TimerIds : timers[i].kind # "free" => timers[i].left > 0
  /\ \E i \in TimerIds : timers[i].kind # "free"
  /\ timers' = [i \in TimerIds |->
                  IF timers[i].kind = "free" THEN timers[i]
                  ELSE [timers[i] EXCEPT !.left = @ - 1]]
  /\ UNCHANGED <<self, ls, obs, threw, pend, ep, fetchVars, routeVars, forwardVars, dataVars>>

\* the data object whose load:start a view hands to its load handler (lines
\* 359-368), and the message fetch passes (line 262)
Model == "A"
NoMessage == "undefined"

\* fetch on an observed data object, lines 252-264: load:start reaches the
\* view's load handler (line 262), then the call is queued (line 263)
ObservedFetch(resetQueue, callbacks, background) ==
  /\ LoadStartHandled(NoMessage, background, Model)
  /\ FetchQueued(resetQueue, callbacks)
  /\ UNCHANGED <<routeVars, forwardVars, dataVars>>

\* the turn of the forEach on an observed data object: the complete option
\* is the wrapper of lines 258-261, which ends with self.loadEnd()
ObservedFlushCallback ==
  /\ FlushTurn
  /\ IF flush.handler = "complete"
        /\ HasHandler(calls[queues[flush.q][flush.i]], flush.handler)
     THEN LoadEndTriggered(Model)
     ELSE UNCHANGED loadVars
  /\ UNCHANGED <<routeVars, forwardVars, dataVars>>

\* a slip of line 240: the queue is reset whichever queue is active
StillActive_always(queue, fetchQueue) == TRUE

\* line 240: self.fetchQueue === fetchQueue
StillActive(queue, fetchQueue) == queue = fetchQueue

\* the end of a flushQueue handler, lines 239-242; after the success or
\* error handler the transport calls the complete handler
FlushDone ==
  /\ flush.on
  /\ flush.i > flush.len
  /\ fq' = IF StillActive(fq, flush.q) THEN 0 ELSE fq
  /\ flush' = IF flush.handler = "complete" THEN NoFlush
              ELSE [on |-> TRUE, q |-> flush.q, handler |-> "complete", i |-> 1,
                    len |-> Len(queues[flush.q]), inCallback |-> FALSE]
  /\ UNCHANGED <<calls, queues, xport, cblog, loadVars, routeVars, forwardVars, dataVars>>

-----------------------------------------------------------------------------
(* bindToRoute *)

\* bindToRoute invocations followed
MaxGuards == 2
\* invocations of one returned trigger
MaxTriggers == 2

\* the fragments Backbone.history moves between
Fragments == {"f1", "f2"}

\* a slip of line 161: the completed flag is not looked at
AlreadyCompleted_never(g) == FALSE

\* line 161
AlreadyCompleted(g) == g.completed

\* a slip of line 166: a route event on the unchanged fragment counts as a navigation
IgnoredRouteEvent_never(isCanceled, same) == FALSE

\* line 166
IgnoredRouteEvent(isCanceled, same) == isCanceled /\ same

\* a slip of line 176: the callback runs whenever the trigger is what finalizes
RunsCallback_anyFragment(isCanceled, same) == ~isCanceled

\* line 176
RunsCallback(isCanceled, same) == ~isCanceled /\ same

\* finalizer, lines 158-181, of the invocation g, with the current fragment.
\* g.fragment, g.completed: the closure's variables; g.bound: resetLoader is
\* bound to Backbone.history's 'route'; g.failback: a failback was passed.
\* History: callbacks, failbacks count the calls of callback and failback, dup
\* tells that a route event on the unchanged fragment was ignored.
Finalizer(g, isCanceled, current) ==
  LET same == g.fragment = current                        \* line 159
  IN  IF AlreadyCompleted(g) THEN g                       \* lines 161-164
      ELSE IF IgnoredRouteEvent(isCanceled, same)         \* lines 166-170
           THEN [g EXCEPT !.dup = TRUE]
      ELSE LET g1 == [g EXCEPT !.completed = TRUE, !.bound = FALSE]   \* 172-173
           IN  IF RunsCallback(isCanceled, same)          \* lines 176-180
               THEN [g1 EXCEPT !.callbacks = @ + 1]
               ELSE IF g.failback THEN [g1 EXCEPT !.failbacks = @ + 1]
               ELSE g1

\* bindToRoute(callback, failback), lines 154-187. History of the invocation:
\* triggers counts the invocations of the returned trigger; first is "change"
\* when the fragment moved off g.fragment before the trigger was ever
\* invoked, "trigger" when the trigger was invoked before any such move;
\* told tells that a 'route' event was triggered after such a move.
BindToRoute(failback) ==
  /\ Len(guards) < MaxGuards
  /\ guards' = Append(guards, [fragment |-> fragment, completed |-> FALSE,
                               bound |-> TRUE, failback |-> failback,
                               callbacks |-> 0, failbacks |-> 0, dup |-> FALSE,
                               triggers |-> 0, first |-> "none",
                               told |-> FALSE])
  /\ UNCHANGED <<fragment, routePending, loadVars, fetchVars, forwardVars, dataVars>>

\* Backbone.history loads a url: the fragment is set, the route's callback
\* runs, and then the 'route' event is triggered (RouteEvent)
Navigate(f) ==
  /\ ~routePending
  /\ fragment' = f
  /\ routePending' = TRUE
  /\ guards' = [i \in 1..Len(guards) |->
                  IF guards[i].first = "none" /\ f # guards[i].fragment
                  THEN [guards[i] EXCEPT !.first = "change"]
                  ELSE guards[i]]
  /\ UNCHANGED <<loadVars, fetchVars, forwardVars, dataVars>>

\* Backbone.history triggers 'route': every bound resetLoader (line 183) runs
RouteEvent ==
  /\ routePending
  /\ routePending' = FALSE
  /\ guards' = [i \in 1..Len(guards) |->
                  LET g == IF guards[i].bound
                           THEN Finalizer(guards[i], TRUE, fragment)
                           ELSE guards[i]
                  IN  [g EXCEPT !.told = @ \/ g.first = "change"]]
  /\ UNCHANGED <<fragment, loadVars, fetchVars, forwardVars, dataVars>>

\* the trigger returned at line 186 is invoked
Trigger(i) ==
  /\ i \in 1..Len(guards)
  /\ guards[i].triggers < MaxTriggers
  /\ guards' = [guards EXCEPT ![i] =
                  [Finalizer(guards[i], FALSE, fragment) EXCEPT
                     !.triggers = @ + 1,
                     !.first = IF @ = "none" THEN "trigger" ELSE @]]
  /\ UNCHANGED <<fragment, routePending, loadVars, fetchVars, forwardVars, dataVars>>

-----------------------------------------------------------------------------
(* Thorax.forwardLoadEvents *)

\* forwardLoadEvents invocations followed
MaxForwarders == 2
\* load:start events triggered on source
MaxEvents == 2

\* a slip of line 106: the forwarder stays bound whatever `once` is
OnceUnbinds_never(once) == FALSE

\* lines 106-108: if (once) source.unbind(loadStart, load)
OnceUnbinds(once) == once

\* line 109: the arguments handed on to dest.trigger
Forwarded(args) ==
  [message |-> args.message, background |-> args.background, object |-> args.object]

\* Thorax.forwardLoadEvents(source, dest, once), lines 104-117: binds `load`
\* to source. History of the invocation: after is the number of load:start
\* events source had triggered before; unbound tells that the returned
\* unbind was called, and until how many it had triggered by then.
ForwardLoadEvents(once) ==
  /\ Len(forwarders) < MaxForwarders
  /\ forwarders' = Append(forwarders, [once |-> once, bound |-> TRUE,
                                       after |-> Len(sourceEvents),
                                       unbound |-> FALSE, until |-> 0])
  /\ UNCHANGED <<sourceEvents, destEvents, loadVars, fetchVars, routeVars, dataVars>>

\* the `load` closures that one load:start on source runs, in the order they
\* were bound: each unbinds itself if once is set, then triggers dest
RECURSIVE RunForwarders(_, _, _, _)
RunForwarders(fs, dest, args, i) ==
  IF i > Len(fs) THEN [fs |-> fs, dest |-> dest]
  ELSE IF ~fs[i].bound THEN RunForwarders(fs, dest, args, i + 1)
  ELSE RunForwarders(
         [fs EXCEPT ![i].bound = ~OnceUnbinds(fs[i].once)],
         Append(dest, [f |-> i, n |-> Len(sourceEvents) + 1, args |-> Forwarded(args)]),
         args, i + 1)

\* source.trigger('load:start', message, background, object)
SourceLoadStart(message, background, object) ==
  /\ Len(sourceEvents) < MaxEvents
  /\ LET args == [message |-> message, background |-> background, object |-> object]
         r    == RunForwarders(forwarders, destEvents, args, 1)
     IN  /\ sourceEvents' = Append(sourceEvents, args)
         /\ forwarders' = r.fs
         /\ destEvents' = r.dest
  /\ UNCHANGED <<loadVars, fetchVars, routeVars, dataVars>>

\* the unbind of the object returned at line 112
ForwarderUnbind(i) ==
  /\ i \in 1..Len(forwarders)
  /\ ~forwarders[i].unbound
  /\ forwarders' = [forwarders EXCEPT ![i].bound = FALSE, ![i].unbound = TRUE,
                                      ![i].until = Len(sourceEvents)]
  /\ UNCHANGED <<sourceEvents, destEvents, loadVars, fetchVars, routeVars, dataVars>>

-----------------------------------------------------------------------------
(* load / loadData on a Thorax.Model or Thorax.Collection *)

\* load calls followed
MaxLoads == 2

\* what a transport does when abort() is called on a request in flight:
\* TRUE, it calls the error and complete handlers before abort returns (as
\* jQuery.ajax does); FALSE, it drops the request without calling any handler
AbortNotifies == BOOLEAN

\* line 289: failback && failback.apply && failback.apply(this, arguments),
\* on the record l of the load call; flog is the history of the isError
\* flags the caller's failback was invoked with
UserFailback(l, isError) ==
  IF l.userFailback THEN [l EXCEPT !.flog = Append(@, isError)] ELSE l

\* flushQueue(self, fetchQueue, 'error'), lines 227-238: the error option of
\* every queued load call is the failback of line 280 bound to isError =
\* true (line 200), which skips lines 283-286
RECURSIVE ReplayError(_, _, _)
ReplayError(ld, queue, k) ==
  IF k > Len(queue) THEN ld
  ELSE ReplayError([ld EXCEPT ![queue[k]] = UserFailback(@, TRUE)], queue, k + 1)

\* self._request.abort(), line 285, on st = [loads, queue, request, aborted].
\* A request in flight ends in error: the error handler replays the queue
\* and resets it (lines 217, 239-242), the complete handler of Thorax.sync
\* clears _request and _aborted (lines 141-143). A request whose handlers
\* are running, or that was dropped, ignores abort.
Abort(st, notifies) ==
  IF st.request # "inflight" THEN st
  ELSE IF notifies
       THEN [st EXCEPT !.loads = ReplayError(st.loads, st.queue, 1),
                       !.queue = <<>>, !.request = "none", !.aborted = FALSE]
       ELSE [st EXCEPT !.request = "dropped"]

\* the failback of lines 280-290 invoked with isError = false: the route
\* changed, the request is killed, then the caller's failback is called
RouteChanged(st, i, notifies) ==
  LET st1 == IF st.request # "none"                         \* line 283
             THEN Abort([st EXCEPT !.aborted = TRUE], notifies)
             ELSE st
  IN  [st1 EXCEPT !.loads[i] = UserFailback(@, FALSE)]

\* the finalizer of the route guard of load call i (lines 158-181), with
\* what its failback does
RunGuard(st, i, isCanceled, notifies) ==
  LET g   == Finalizer(st.loads[i], isCanceled, fragment)
      st1 == [st EXCEPT !.loads[i] = g]
  IN  IF g.failbacks > st.loads[i].failbacks
      THEN RouteChanged(st1, i, notifies)
      ELSE st1

\* load(callback, failback), lines 266-292, on an unpopulated object:
\* loadData binds a route guard (line 199) and calls fetch, which kicks off
\* the request or joins the queue (lines 212-224)
Load(userFailback) ==
  /\ Len(loads) < MaxLoads
  /\ ~populated
  /\ loads' = Append(loads, [fragment |-> fragment, completed |-> FALSE,
                             bound |-> TRUE, failback |-> TRUE,
                             callbacks |-> 0, failbacks |-> 0, dup |-> FALSE,
                             userFailback |-> userFailback, flog |-> <<>>])
  /\ dataQueue' = Append(dataQueue, Len(loads) + 1)
  /\ request' = IF dataQueue = <<>> THEN "inflight" ELSE request
  /\ UNCHANGED <<aborted, populated, fragment, routePending, guards,
                 loadVars, fetchVars, forwardVars>>

\* the success option of every queued load call, in queue order: the trigger
\* of its route guard (line 199)
RECURSIVE ReplaySuccess(_, _)
ReplaySuccess(st, k) ==
  IF k > Len(dataQueue) THEN st
  ELSE ReplaySuccess(RunGuard(st, dataQueue[k], FALSE, TRUE), k + 1)

\* the request succeeds: the queue's success handler, then its complete
\* handler; _request is still set while the success callbacks run
DataSuccess ==
  /\ request = "inflight"
  /\ LET st == ReplaySuccess([loads |-> loads, queue |-> dataQueue,
                              request |-> "completing", aborted |-> aborted], 1)
     IN  loads' = st.loads
  /\ dataQueue' = <<>>
  /\ request' = "none"
  /\ aborted' = FALSE
  /\ populated' = TRUE
  /\ UNCHANGED <<fragment, routePending, guards, loadVars, fetchVars, forwardVars>>

\* the request fails: the queue's error handler, then its complete handler
DataError ==
  /\ request = "inflight"
  /\ loads' = ReplayError(loads, dataQueue, 1)
  /\ dataQueue' = <<>>
  /\ request' = "none"
  /\ aborted' = FALSE
  /\ UNCHANGED <<populated, fragment, routePending, guards,
                 loadVars, fetchVars, forwardVars>>

\* Backbone.history triggers 'route': the resetLoader of every route guard
\* that is bound runs, in the order they were bound
RECURSIVE ResetLoaders(_, _, _)
ResetLoaders(st, i, notifies) ==
  IF i > Len(loads) THEN st
  ELSE ResetLoaders(IF loads[i].bound THEN RunGuard(st, i, TRUE, notifies) ELSE st,
                    i + 1, notifies)

DataRouteEvent(notifies) ==
  /\ routePending
  /\ routePending' = FALSE
  /\ LET st == ResetLoaders([loads |-> loads, queue |-> dataQueue,
                             request |-> request, aborted |-> aborted], 1, notifies)
     IN  /\ loads' = st.loads
         /\ dataQueue' = st.queue
         /\ request' = st.request
         /\ aborted' = st.aborted
  /\ UNCHANGED <<populated, fragment, guards, loadVars, fetchVars, forwardVars>>

-----------------------------------------------------------------------------
(* Specifications *)

\* the state after the file has loaded: no signal, no queue, no route guard
InitRest ==
  /\ ls = NoSignal
  /\ timers = [i \in TimerIds |-> FreeTimer]
  /\ obs = [o \in Sources |-> 0]
  /\ threw = FALSE
  /\ pend = [o \in Sources |-> 0]
  /\ ep = NewEpisode
  /\ calls = <<>>
  /\ fq = 0
  /\ queues = [q \in CallIds |-> <<>>]
  /\ xport = [q \in CallIds |-> "none"]
  /\ flush = NoFlush
  /\ cblog = <<>>
  /\ fragment = "f1"
  /\ routePending = FALSE
  /\ guards = <<>>
  /\ forwarders = <<>>
  /\ sourceEvents = <<>>
  /\ destEvents = <<>>
  /\ loads = <<>>
  /\ dataQueue = <<>>
  /\ request = "none"
  /\ aborted = FALSE
  /\ populated = FALSE

InitLoad == self \in Instances /\ InitRest

Init ==
  /\ self = [_loadingTimeoutDuration |-> Unset, _loadingTimeoutEndDuration |-> Unset]
  /\ InitRest

NextLoad ==
  \/ \E m \in Messages, b \in BOOLEAN, o \in Sources : LoadStart(m, b, o)
  \/ \E o \in Sources : LoadEnd(o)
  \/ \E i \in TimerIds : StartTimerFire(i)
  \/ \E i \in TimerIds : EndTimerFire(i)
  \/ Tick

\* the load handler of one observing object
SpecLoad == InitLoad /\ [][NextLoad]_vars

\* the same, with the event loop running a timer callback that is due
SpecLoadFair ==
  /\ InitLoad /\ [][NextLoad]_vars
  /\ WF_vars(\E i \in TimerIds : StartTimerFire(i))
  /\ WF_vars(\E i \in TimerIds : EndTimerFire(i))

NextForward ==
  \/ \E once \in BOOLEAN : ForwardLoadEvents(once)
  \/ \E m \in Messages, b \in BOOLEAN : SourceLoadStart(m, b, "A")
  \/ \E i \in 1..MaxForwarders : ForwarderUnbind(i)

\* forwarders between one source and one dest
SpecForward == Init /\ [][NextForward]_vars

NextData ==
  \/ \E fb \in BOOLEAN : Load(fb)
  \/ DataSuccess
  \/ DataError
  \/ \E f \in Fragments : Navigate(f)
  \/ \E notifies \in AbortNotifies : DataRouteEvent(notifies)

\* load calls on one data object against the history
SpecData == Init /\ [][NextData]_vars

\* the callbacks the observed object's callers pass: a success callback,
\* from which they may fetch again
ObservedCallbacks == {"success"}

\* the observing view overrides both durations
InitObserved ==
  /\ self = [_loadingTimeoutDuration |-> Override(4),
             _loadingTimeoutEndDuration |-> Override(2)]
  /\ InitRest

NextObserved ==
  \/ \E r \in BOOLEAN, b \in BOOLEAN : ObservedFetch(r, ObservedCallbacks, b)
  \/ \E q \in CallIds, outcome \in {"success", "error"} : TransportComplete(q, outcome)
  \/ ObservedFlushCallback
  \/ FlushDone
  \/ \E i \in TimerIds : StartTimerFire(i)
  \/ \E i \in TimerIds : EndTimerFire(i)
  \/ ObservedTick

\* a view observing one data object: every transport call completes, a
\* running handler goes on, a due timer fires, time passes
SpecObserved ==
  /\ InitObserved /\ [][NextObserved]_vars
  /\ WF_vars(\E q \in CallIds, outcome \in {"success", "error"} : TransportComplete(q, outcome))
  /\ WF_vars(ObservedFlushCallback)
  /\ WF_vars(FlushDone)
  /\ WF_vars(\E i \in TimerIds : StartTimerFire(i))
  /\ WF_vars(\E i \in TimerIds : EndTimerFire(i))
  /\ WF_vars(ObservedTick)

NextFetch ==
  \/ \E r \in BOOLEAN, cb \in CallbackSets : Fetch(r, cb)
  \/ \E q \in CallIds, outcome \in {"success", "error"} : TransportComplete(q, outcome)
  \/ FlushCallback
  \/ FlushDone

\* the fetch queue of one data object
SpecFetch == Init /\ [][NextFetch]_vars

NextRoute ==
  \/ \E fb \in BOOLEAN : BindToRoute(fb)
  \/ \E f \in Fragments : Navigate(f)
  \/ RouteEvent
  \/ \E i \in 1..MaxGuards : Trigger(i)

\* route guards against the history
SpecRoute == Init /\ [][NextRoute]_vars

-----------------------------------------------------------------------------
(* Thorax.loadHandler: properties *)

\* C1: within one episode (one LoadSignal, from its creation to its discard)
\* the end callback is invoked at most once, and only after the start
\* callback was invoked in that same episode.
C1_EndOnceAfterStart ==
  /\ ep.onEnd <= 1
  /\ (ep.onEnd > 0 => ep.onStart > 0)

\* an episode that has run both callbacks and was discarded
C1_Witness == ~ls.open /\ ep.onStart = 1 /\ ep.onEnd = 1

\* C2: an episode of a single load:start whose load:end came strictly less
\* than the start delay after it never invokes the start or the end callback.
C2_FlickerSuppressed ==
  (ep.starts = 1 /\ ep.firstEnd = "early") => (ep.onStart = 0 /\ ep.onEnd = 0)

\* C3: while a sub-load that signalled load:start has not yet signalled
\* load:end, the episode stays open: the LoadSignal is not discarded (and so
\* the end callback, which runs only at the discard, is not invoked).
C3_OpenWhileSubLoadPending ==
  (\E o \in Sources : pend[o] > 0) => ls.open

\* the delays the observing object is configured with, in ticks
StartDelay ==
  IF self._loadingTimeoutDuration.def THEN self._loadingTimeoutDuration.val
  ELSE ClassTimeoutDuration
EndDelay ==
  IF self._loadingTimeoutEndDuration.def THEN self._loadingTimeoutEndDuration.val
  ELSE ClassTimeoutEndDuration

\* an episode of one load:start whose load:end came at or after the start delay
SingleLate == ep.starts = 1 /\ ep.firstEnd = "late"

C11_Step ==
  /\ (ep.starts = 1 /\ ep'.starts = 1 /\ ep'.onStart = ep.onStart + 1)
       => ep.t = StartDelay
  /\ (SingleLate /\ ep'.starts = 1 /\ ep'.onEnd = ep.onEnd + 1)
       => ep.sinceEnd = EndDelay

C11_Reached ==
  SingleLate =>
    /\ ep.onStart <= 1 /\ ep.onEnd <= 1
    /\ (ep.t > StartDelay => ep.onStart = 1)
    /\ IF ls.open THEN ep.sinceEnd <= EndDelay /\ ep.onEnd = 0
       ELSE ep.sinceEnd = EndDelay /\ ep.onStart = 1 /\ ep.onEnd = 1

\* C11: in an episode of a single load:start at time 0 whose load:end comes at
\* te >= the start delay, with no other load:start, the start callback is
\* invoked exactly at the start delay and the end callback exactly at te plus
\* the end delay (each once: neither earlier, nor later, nor skipped).
C11_SingleLoadTimes == [][C11_Step]_vars /\ []C11_Reached

\* such an episode, ended strictly after the start delay, has run both callbacks
C11_Witness ==
  /\ ~ls.open /\ SingleLate /\ ep.onStart = 1 /\ ep.onEnd = 1
  /\ ep.t > StartDelay + EndDelay /\ ep.sinceEnd = EndDelay

\* C12: when a background load:start opened the episode and a non-background
\* load:start arrives on the same object while it is open, the start callback
\* is eventually invoked for that episode with the signal no longer in
\* background, and the episode is not discarded before that.
C12_UpgradeSurfaces ==
  /\ Upgraded(ep) ~> ep.fgStarts > 0
  /\ []((Upgraded(ep) /\ ~ls.open) => ep.fgStarts > 0)

\* an upgraded episode whose start callback ran out of background
C12_Witness == Upgraded(ep) /\ ep.fgStarts > 0 /\ ~ls.background

C13_NoReturnStep ==
  (ls.open /\ ls'.open /\ ~ls.background) => ~ls'.background

\* C13: while a LoadSignal exists its background flag is true exactly when
\* every load:start of the episode was a background one (so it is the flag of
\* the first load:start until a non-background one arrives), and within the
\* episode it never goes from false back to true.
C13_BackgroundIffAllBackground ==
  /\ [](ls.open => (ls.background <=> ep.allBg))
  /\ [][C13_NoReturnStep]_vars

\* a signal opened in background and taken out of it by the second load:start
C13_Witness ==
  ls.open /\ ep.starts = 2 /\ ep.openedBg /\ ~ep.allBg /\ ~ls.background

\* the armed timers whose callback is of the given kind
Armed(kind) == {i \in TimerIds : timers[i].kind = kind}

\* C14: at most one start timer and at most one end timer is armed at any
\* time, and an armed timer is the one the LoadSignal's handle names: a timer
\* superseded by a later load:start or load:end was cleared and cannot fire.
C14_OneTimerOfEachKind ==
  /\ Cardinality(Armed("start")) <= 1
  /\ Cardinality(Armed("end")) <= 1
  /\ \A i \in Armed("start") : ls.open /\ ls.timeout = i
  /\ \A i \in Armed("end") : ls.open /\ ls.endTimeout = i /\ timers[i].cur

\* the start timer re-armed by an upgrade while the first one was still pending
C14_Witness ==
  /\ Upgraded(ep) /\ ep.onStart = 0 /\ ep.t > 0 /\ ep.t < StartDelay
  /\ \E i \in Armed("start") : ls.timeout = i /\ timers[i].left = 0

\* C16: the start timer re-armed when a non-background load:start upgrades a
\* background episode runs with the delay of the timer armed at creation, so
\* the start callback is not invoked out of background earlier than the
\* start delay after the upgrading load:start.
C16_RearmKeepsDelay ==
  (Upgraded(ep) /\ ep.fgStarts > 0) => ep.upgradeWait >= StartDelay

\* C17, amended: the start callback may run again only when an upgrade re-armed the start
\* timer after it had already fired, and then once more, out of background
C17_OnceUnlessLateUpgrade ==
  /\ ep.onStart <= (IF ep.lateUpgrade THEN 2 ELSE 1)
  /\ (ep.onStart = 2 => ep.fgStarts = 1)

\* C17: within one episode the start callback is invoked at most once, over
\* every sequence of background and non-background load:start events,
\* load:end events and timer firings.
C17_StartAtMostOnce == ep.onStart <= 1

\* a non-background load:start that cancelled the armed end timer of a
\* background episode whose start callback had run, and made it run again
C17_Witness ==
  /\ ls.open /\ ep.starts = 2 /\ ep.firstEnd # "none" /\ ep.lateUpgrade
  /\ ep.onStart = 2 /\ ep.fgStarts = 1 /\ Armed("end") = {} /\ Len(ls.events) = 1

\* the endCallbacks bound and not yet run, over all source objects
RECURSIVE Pending(_)
Pending(S) == IF S = {} THEN 0
              ELSE LET o == CHOOSE x \in S : TRUE IN obs[o] + Pending(S \ {o})

\* C20: without a LoadSignal no start or end timer is armed and no
\* endCallback is still bound; the entries of events are as many as the
\* endCallbacks bound and not yet run; and no timer or endCallback ever ran
\* against a discarded LoadSignal.
C20_NothingOutlivesSignal ==
  /\ ~ls.open => (Armed("start") = {} /\ Armed("end") = {} /\ Pending(Sources) = 0)
  /\ Len(ls.events) = Pending(Sources)
  /\ \A o \in Sources :
       obs[o] = Cardinality({k \in 1..Len(ls.events) : ls.events[k] = o})
  /\ ~threw

\* a discarded signal after two sub-loads that had run both callbacks
C20_Witness ==
  ~ls.open /\ ep.starts = 2 /\ ep.onEnd = 1 /\ Pending(Sources) = 0

-----------------------------------------------------------------------------
(* Thorax.forwardLoadEvents: properties *)

\* the times forwarder f triggered dest for the n-th load:start of source
Forwards(f, n) ==
  Cardinality({k \in 1..Len(destEvents) : destEvents[k].f = f /\ destEvents[k].n = n})

\* the n-th load:start of source came while forwarder f was subscribed
Subscribed(f, n) ==
  /\ n > forwarders[f].after
  /\ forwarders[f].unbound => n <= forwarders[f].until
  /\ forwarders[f].once => n = forwarders[f].after + 1

\* C15: every load:start triggered on source while a forwarder is subscribed
\* is triggered on dest once by it, with the same message, background and
\* object; a forwarder made with once forwards the first load:start after
\* its registration and none after it; none is forwarded after the returned
\* unbind was called.
C15_ForwardsWhileSubscribed ==
  /\ \A f \in 1..Len(forwarders), n \in 1..Len(sourceEvents) :
       Forwards(f, n) = IF Subscribed(f, n) THEN 1 ELSE 0
  /\ \A k \in 1..Len(destEvents) :
       destEvents[k].args = sourceEvents[destEvents[k].n]

\* two load:start events after a once forwarder and a plain one were bound,
\* the plain one unbound between the two
C15_Witness ==
  /\ Len(sourceEvents) = 2 /\ Len(destEvents) = 2
  /\ \E f, g \in 1..Len(forwarders) :
       /\ forwarders[f].once /\ forwarders[f].after = 0 /\ ~forwarders[f].unbound
       /\ ~forwarders[g].once /\ forwarders[g].after = 0
       /\ forwarders[g].unbound /\ forwarders[g].until = 1

-----------------------------------------------------------------------------
(* load / loadData: properties *)

\* C18: for one call of load(callback, failback) on an unpopulated object,
\* over every interleaving of transport success, transport error, abort and
\* route changes, at most one of callback and failback is invoked, and it is
\* invoked at most once.
C18_OneOutcomeOnce ==
  \A i \in 1..Len(loads) : loads[i].callbacks + Len(loads[i].flog) <= 1

-----------------------------------------------------------------------------
(* fetchQueue / flushQueue: properties *)

\* the times the callback `handler` of call c was invoked
Count(c, handler) ==
  Cardinality({i \in 1..Len(cblog) : cblog[i].c = c /\ cblog[i].handler = handler})

\* the place of call c in the array of queue q
RECURSIVE IndexOf(_, _)
IndexOf(s, c) == IF s = <<>> THEN 0
                 ELSE IF s[Len(s)] = c /\ \A k \in 1..(Len(s) - 1) : s[k] # c THEN Len(s)
                 ELSE IndexOf(SubSeq(s, 1, Len(s) - 1), c)

\* no transport call is in flight and no handler is running
Quiescent == ~flush.on /\ \A q \in CallIds : xport[q] # "inflight"

\* C4: once every transport call has completed and its queue is replayed,
\* every fetch call has had each callback it supplied invoked exactly once
\* (success or error as the transport call of its queue ended, and complete),
\* with the arguments of the transport call of the queue it joined, and the
\* callbacks of different callers ran in the order the calls were queued.
C4_EveryCallbackOnce ==
  Quiescent =>
    /\ \A c \in 1..Len(calls) :
         /\ \A h \in {"success", "error"} :
              Count(c, h) = IF h \in calls[c].callbacks /\ xport[calls[c].q] = h
                            THEN 1 ELSE 0
         /\ Count(c, "complete") = 1
    /\ \A i \in 1..Len(cblog) : cblog[i].x = calls[cblog[i].c].q
    /\ \A i, j \in 1..Len(cblog) :
         (i < j /\ cblog[i].x = cblog[j].x /\ cblog[i].handler = cblog[j].handler)
           => IndexOf(queues[cblog[i].x], cblog[i].c) < IndexOf(queues[cblog[j].x], cblog[j].c)

\* the load:end events the complete wrappers of the fetch calls have triggered
LoadEnds == Cardinality({k \in 1..Len(cblog) : cblog[k].handler = "complete"})

\* the complete handler of the transport call of c's queue has run
Completed(c) ==
  /\ xport[calls[c].q] \in {"success", "error"}
  /\ ~flush.on \/ flush.q # calls[c].q

\* every fetch call has triggered one load:start, not more than one load:end,
\* and one load:end once the complete handler of its queue has run
C19_OneStartOneEnd ==
  /\ pend[Model] = Len(calls) - LoadEnds
  /\ \A c \in 1..Len(calls) :
       /\ Count(c, "complete") <= 1
       /\ Completed(c) => Count(c, "complete") = 1
  /\ ~threw

\* C19: every fetch call triggers exactly one load:start on the object, and
\* exactly one load:end once the complete handler of its queue's transport
\* call runs (first or queued, with or without resetQueue); so when every
\* transport call completes, every such load:start is eventually matched by
\* a load:end and every episode it opened on the observing view eventually
\* closes.
C19_FetchEpisodesClose ==
  /\ []C19_OneStartOneEnd
  /\ \A c \in CallIds : (Len(calls) >= c) ~> (Count(c, "complete") = 1)
  /\ ls.open ~> ~ls.open

\* an episode opened by two fetch calls, one with resetQueue, has run both
\* callbacks and closed after both transport calls completed
C19_Witness ==
  /\ ~ls.open /\ ep.starts = 2 /\ ep.onEnd = 1 /\ pend[Model] = 0
  /\ Len(calls) = 2 /\ calls[2].resetQueue /\ calls[2].q = 2
  /\ Count(1, "complete") = 1 /\ Count(2, "complete") = 1

\* the calls of queue q that joined it while its transport call was in flight
LiveCalls(q) == {c \in 1..Len(calls) : calls[c].q = q /\ calls[c].live}

\* the success handler of queue q has replayed the queue
SuccessReplayed(q) ==
  /\ xport[q] = "success"
  /\ ~(flush.on /\ flush.q = q /\ flush.handler = "success")

\* a fetch call without resetQueue is made while a queue is active
C5_JoinStep ==
  (/\ Len(calls') = Len(calls) + 1
   /\ fq # 0
   /\ ~calls'[Len(calls')].resetQueue)
  => /\ fq' = fq
     /\ queues' = [queues EXCEPT ![fq] = Append(@, Len(calls'))]
     /\ xport' = xport

\* the calls made while the transport call was in flight share its result
C5_SharedResult ==
  \A q \in CallIds : SuccessReplayed(q) =>
    \A c \in LiveCalls(q) :
      /\ Count(c, "success") = IF "success" \in calls[c].callbacks THEN 1 ELSE 0
      /\ \A i \in 1..Len(cblog) : cblog[i].c = c => cblog[i].x = q

InFlight == {q \in CallIds : xport[q] = "inflight"}

\* C6 as stated: whatever the options of the fetch calls on the object, at
\* most one transport call of the object is in flight.
C6_OneInFlight == Cardinality(InFlight) <= 1

\* C6: as long as no fetch call on the object has set resetQueue, at most
\* one transport call of the object is in flight.
C6_OneInFlightWithoutReset ==
  (\A c \in 1..Len(calls) : ~calls[c].resetQueue) => Cardinality(InFlight) <= 1

\* a second transport call is in flight, with a call queued behind it, after
\* the first one completed; no call has set resetQueue
C6_Witness ==
  /\ Len(calls) = 3
  /\ \A c \in 1..3 : ~calls[c].resetQueue
  /\ xport[1] = "success"
  /\ InFlight = {2}
  /\ queues[2] = <<2, 3>>

\* the queue created last
Latest == CHOOSE q \in CallIds \cup {0} :
            /\ q # 0 => xport[q] # "none"
            /\ \A r \in CallIds : xport[r] # "none" => r <= q

\* a fetch call with resetQueue starts a queue and a transport call of its own
C10_ResetStep ==
  (Len(calls') = Len(calls) + 1 /\ calls'[Len(calls')].resetQueue)
  => LET c == Len(calls')
     IN  /\ fq' = c
         /\ queues' = [queues EXCEPT ![c] = <<c>>]
         /\ xport' = [xport EXCEPT ![c] = "inflight"]

\* the newest queue is the object's queue while its transport call is in
\* flight, and every callback is replayed by the transport call of the queue
\* its call joined
C10_NewerQueueKept ==
  /\ (Latest # 0 /\ xport[Latest] = "inflight") => fq = Latest
  /\ \A i \in 1..Len(cblog) : cblog[i].x = calls[cblog[i].c].q

\* C10: a fetch call with resetQueue made while a transport call is in
\* flight discards the queue and starts a new queue with a transport call of
\* its own; the completion of the earlier transport call does not clear the
\* newer queue, which stays the object's queue until its own transport call
\* completes, and the calls queued on it are replayed by that transport call.
C10_ResetQueueSurvivesOldCleanup == [][C10_ResetStep]_vars /\ []C10_NewerQueueKept

\* call 2 reset the queue while the first transport call was in flight, call
\* 3 joined the new queue after the first transport call had completed and
\* been replayed, and the second transport call then replayed call 3
C10_Witness ==
  /\ Len(calls) = 3
  /\ calls[2].resetQueue /\ calls[2].overlap
  /\ calls[3].q = 2 /\ ~calls[3].overlap
  /\ Count(1, "complete") = 1
  /\ \E i \in 1..Len(cblog) : cblog[i].c = 3 /\ cblog[i].x = 2

-----------------------------------------------------------------------------
(* bindToRoute: properties *)

GuardIds == 1..Len(guards)

\* C7: when the returned trigger is invoked before the fragment has changed,
\* the callback runs exactly once and the failback never; when the fragment
\* changed to a different one first, the callback never runs and the failback
\* runs exactly once (as soon as the 'route' event is triggered or the
\* trigger is invoked), also when the trigger is invoked afterwards.
C7_RouteDecidesCallback ==
  \A i \in GuardIds :
    LET g == guards[i]
    IN  /\ g.first = "trigger" => (g.callbacks = 1 /\ g.failbacks = 0)
        /\ g.first = "change" =>
             /\ g.callbacks = 0
             /\ g.failbacks = IF g.failback /\ (g.told \/ g.triggers > 0)
                              THEN 1 ELSE 0

\* one guard whose trigger came first, and one whose fragment changed first
\* and whose trigger was invoked after the 'route' event
C7_Witness ==
  /\ Len(guards) = 2
  /\ guards[1].first = "change" /\ guards[1].told /\ guards[1].triggers > 0
  /\ guards[1].failback /\ guards[1].failbacks = 1
  /\ guards[2].first = "trigger" /\ guards[2].callbacks = 1
  /\ guards[2].triggers = MaxTriggers

\* a completed guard stays as it is, whatever calls its finalizer
C8_CompletedStep ==
  \A i \in GuardIds :
    guards[i].completed =>
      /\ guards'[i].completed
      /\ guards'[i].bound = guards[i].bound
      /\ guards'[i].callbacks = guards[i].callbacks
      /\ guards'[i].failbacks = guards[i].failbacks

C8_AtMostOne ==
  \A i \in GuardIds : guards[i].callbacks + guards[i].failbacks <= 1

\* C8: for one bindToRoute invocation the calls of the callback and of the
\* failback number at most one in all, and once the guard is completed every
\* later call of the finalizer changes nothing.
C8_FinalizesOnce == []C8_AtMostOne /\ [][C8_CompletedStep]_vars

\* a guard completed by its trigger, whose trigger was invoked again and
\* after which the history moved to another fragment and triggered 'route'
C8_Witness ==
  \E i \in GuardIds :
    /\ guards[i].completed /\ guards[i].callbacks = 1
    /\ guards[i].triggers = MaxTriggers
    /\ fragment # guards[i].fragment /\ ~routePending

\* a 'route' event on the fragment captured by a pending guard
C9_DuplicateStep ==
  (routePending /\ ~routePending') =>
    \A i \in GuardIds :
      (~guards[i].completed /\ guards[i].fragment = fragment) =>
        /\ ~guards'[i].completed
        /\ guards'[i].bound = guards[i].bound
        /\ guards'[i].callbacks = guards[i].callbacks
        /\ guards'[i].failbacks = guards[i].failbacks

\* the trigger of a pending guard, the fragment being the captured one
C9_TriggerStep ==
  \A i \in GuardIds :
    (/\ guards'[i].triggers = guards[i].triggers + 1
     /\ ~guards[i].completed
     /\ guards[i].fragment = fragment)
    => (guards'[i].callbacks = guards[i].callbacks + 1 /\ guards'[i].failbacks = 0)

\* C9: a 'route' event received while the fragment is the one captured at
\* wrap time leaves a pending guard as it is (not completed, still bound, no
\* callback run), and a later invocation of the trigger on the unchanged
\* fragment runs the callback.
C9_DuplicateRouteIgnored == [][C9_DuplicateStep]_vars /\ [][C9_TriggerStep]_vars

\* a guard that ignored a 'route' event and then ran its callback
C9_Witness ==
  \E i \in GuardIds :
    guards[i].dup /\ guards[i].first = "trigger" /\ guards[i].callbacks = 1

=============================================================================
